---- MODULE Spec2Model ----
(***************************************************************************)
(* A model of updr's command line workflow (src/updr/cli.py): one run of   *)
(* main() over a dependency manifest, with pip (list -o, install           *)
(* --upgrade, freeze), the terminal and the file system as environment.    *)
(*                                                                         *)
(* Python strings are sequences of one-character strings, so that lower(), *)
(* strip(), split() and re.split() are computed, not assumed.  A Python    *)
(* dict is a sequence of <<key, value>> pairs in insertion order.          *)
(***************************************************************************)
EXTENDS Integers, Sequences, FiniteSets, TLC

\* The longest manifest (lines of a requirements file, entries of
\* [project.dependencies]) the model draws.
MaxLines == 2

(***************************************************************************)
(* str methods                                                             *)
(***************************************************************************)
UpperAlpha ==
  <<"A","B","C","D","E","F","G","H","I","J","K","L","M",
    "N","O","P","Q","R","S","T","U","V","W","X","Y","Z">>

LowerAlpha ==
  <<"a","b","c","d","e","f","g","h","i","j","k","l","m",
    "n","o","p","q","r","s","t","u","v","w","x","y","z">>

Whitespace == {" ", "\t", "\n", "\r"}

LowerChar(c) ==
  IF \E i \in DOMAIN UpperAlpha : UpperAlpha[i] = c
    THEN LowerAlpha[CHOOSE i \in DOMAIN UpperAlpha : UpperAlpha[i] = c]
    ELSE c

\* str.lower()
Lower(s) == [i \in DOMAIN s |-> LowerChar(s[i])]

\* str.strip()
Strip(s) ==
  LET keep == {i \in DOMAIN s : s[i] \notin Whitespace}
  IN  IF keep = {} THEN <<>>
      ELSE LET lo == CHOOSE i \in keep : \A j \in keep : i <= j
               hi == CHOOSE i \in keep : \A j \in keep : j <= i
           IN  SubSeq(s, lo, hi)

\* str.startswith(prefix)
StartsWith(s, prefix) ==
  /\ Len(s) >= Len(prefix)
  /\ SubSeq(s, 1, Len(prefix)) = prefix

\* The positions of s at which sep occurs.
Occurrences(s, sep) ==
  {i \in 1..(Len(s) - Len(sep) + 1) : SubSeq(s, i, i + Len(sep) - 1) = sep}

\* s.split(sep)[0]: what precedes the first occurrence of sep, or all of s.
SplitHead(s, sep) ==
  LET occ == Occurrences(s, sep)
  IN  IF occ = {} THEN s
      ELSE SubSeq(s, 1, (CHOOSE i \in occ : \A j \in occ : i <= j) - 1)

\* s.split(sep), sep one character.
RECURSIVE Split(_, _)
Split(s, sep) ==
  LET occ == Occurrences(s, <<sep>>)
  IN  IF occ = {} THEN <<s>>
      ELSE LET i == CHOOSE k \in occ : \A j \in occ : k <= j
           IN  <<SubSeq(s, 1, i - 1)>> \o Split(SubSeq(s, i + 1, Len(s)), sep)

\* re.split(r"[...]", s)[0]: what precedes the first character of class.
ReSplitHead(s, class) ==
  LET occ == {i \in DOMAIN s : s[i] \in class}
  IN  IF occ = {} THEN s
      ELSE SubSeq(s, 1, (CHOOSE i \in occ : \A j \in occ : i <= j) - 1)

(***************************************************************************)
(* dict                                                                    *)
(***************************************************************************)
Keys(d) == {d[i][1] : i \in DOMAIN d}

Has(d, k) == k \in Keys(d)

Get(d, k) == d[CHOOSE i \in DOMAIN d : d[i][1] = k][2]

\* d[k] = v: a present key keeps its place and takes the new value.
Put(d, k, v) ==
  IF Has(d, k)
    THEN [i \in DOMAIN d |-> IF d[i][1] = k THEN <<k, v>> ELSE d[i]]
    ELSE Append(d, <<k, v>>)

(***************************************************************************)
(* Literals of the program                                                 *)
(***************************************************************************)
PinOperator == <<"=", "=">>

RequirementsTxt ==
  <<"r","e","q","u","i","r","e","m","e","n","t","s",".","t","x","t">>

PyprojectToml ==
  <<"p","y","p","r","o","j","e","c","t",".","t","o","m","l">>

(***************************************************************************)
(* The functions of cli.py                                                 *)
(***************************************************************************)
\* load_requirements: the key of a meaningful line.
RequirementKey(line) == Lower(SplitHead(line, PinOperator))

\* load_requirements: the loop over the file's lines.
RECURSIVE load_requirements_loop(_, _)
load_requirements_loop(deps, lines) ==
  IF lines = <<>> THEN deps
  ELSE LET line == Strip(Head(lines))
       IN  load_requirements_loop(
             IF line # <<>> /\ ~StartsWith(line, <<"#">>)
               THEN Put(deps, RequirementKey(line), line)
               ELSE deps,
             Tail(lines))

load_requirements(lines) == load_requirements_loop(<<>>, lines)

\* load_toml_deps: the key of one [project.dependencies] entry.
TomlKey(dep) == Strip(Lower(ReSplitHead(dep, {"=", "<", ">", "~"})))

RECURSIVE load_toml_deps_loop(_, _)
load_toml_deps_loop(deps, entries) ==
  IF entries = <<>> THEN deps
  ELSE load_toml_deps_loop(Put(deps, TomlKey(Head(entries)), Head(entries)),
                           Tail(entries))

\* load_toml_deps, of a document that has [project.dependencies].
load_toml_deps(entries) == load_toml_deps_loop(<<>>, entries)

\* Fault variant of OutdatedKey: the name is not lowercased.
OutdatedKey_NoLower(pkg) == pkg.name

\* list_outdated: the key of one record of pip's JSON array.
OutdatedKey(pkg) == Lower(pkg.name)

RECURSIVE list_outdated_loop(_, _)
list_outdated_loop(acc, data) ==
  IF data = <<>> THEN acc
  ELSE list_outdated_loop(
         Put(acc, OutdatedKey(Head(data)),
             <<Head(data).version, Head(data).latest_version>>),
         Tail(data))

\* list_outdated, of the parsed output of pip list -o --format=json.
list_outdated(data) == list_outdated_loop(<<>>, data)

\* Fault variant of check_conflicting_sources: a conflict is never reported.
check_conflicting_sources_Never(sibling) == FALSE

\* check_conflicting_sources, of the state of the sibling pyproject.toml
\* (a malformed one raises in toml.loads before this is decided).
check_conflicting_sources(sibling) == sibling = "deps"

\* _get_file_dependencies: the format the reader takes the file for.
IsStructured(file_name) == Lower(file_name) = PyprojectToml

\* Fault variant of SelectCandidates: every outdated package is a candidate.
SelectCandidates_All(out, ds) == out

\* _get_upgrade_candidates: the dict comprehension.
SelectCandidates(out, ds) == SelectSeq(out, LAMBDA p : Has(ds, p[1]))

\* _confirm_and_upgrade: confirm = input(...).strip().lower()
Normalize(line) == Lower(Strip(line))

\* Fault variant of Proceeds: everything but "n" is taken for a yes.
Proceeds_UnlessNo(line) == Normalize(line) # <<"n">>

\* _confirm_and_upgrade: the gate.
Proceeds(line) == Normalize(line) = <<"y">>

\* _repin_dependencies: frozen, of the lines of pip freeze.
RECURSIVE frozen_loop(_, _)
frozen_loop(acc, lines) ==
  IF lines = <<>> THEN acc
  ELSE frozen_loop(Put(acc, Lower(SplitHead(Head(lines), PinOperator)), Head(lines)),
                   Tail(lines))

Frozen(freeze_output) == frozen_loop(<<>>, freeze_output)

\* _repin_dependencies: the branch the rewrite takes.
WritesLines(file_name) == file_name = RequirementsTxt

\* _repin_dependencies: the lines written to requirements.txt.
RepinLines(ds, fr) ==
  [i \in DOMAIN ds |-> IF Has(fr, ds[i][1]) THEN Get(fr, ds[i][1]) ELSE ds[i][2]]

\* _repin_dependencies: the new [project.dependencies]; frozen[pkg] raises
\* KeyError when a candidate is missing from the freeze output.
RepinTomlRaises(cands, fr) == \E k \in Keys(cands) : ~Has(fr, k)

RepinToml(ds, cands, fr) ==
  [i \in DOMAIN ds |->
     IF Has(cands, ds[i][1]) THEN Get(fr, ds[i][1]) ELSE ds[i][2]]

(***************************************************************************)
(* The inputs of a run                                                     *)
(***************************************************************************)
\* File names given on the command line: requirements.txt, Requirements.txt,
\* dev.txt, pyproject.toml, PyProject.toml, foo.toml, reqs.
FileNames ==
  { RequirementsTxt,
    <<"R","e","q","u","i","r","e","m","e","n","t","s",".","t","x","t">>,
    <<"d","e","v",".","t","x","t">>,
    PyprojectToml,
    <<"P","y","P","r","o","j","e","c","t",".","t","o","m","l">>,
    <<"f","o","o",".","t","o","m","l">>,
    <<"r","e","q","s">> }

\* Lines of a requirements file: a==1, " A==1", b>=1, B, "# c".
LinePool ==
  { <<"a","=","=","1">>,
    <<" ","A","=","=","1">>,
    <<"b",">","=","1">>,
    <<"B">>,
    <<"#"," ","c">> }

\* Entries of [project.dependencies]: a==1, A>=1, "b ~=1", B.
TomlPool ==
  { <<"a","=","=","1">>,
    <<"A",">","=","1">>,
    <<"b"," ","~","=","1">>,
    <<"B">> }

\* All sequences over pool of length at most n.
RECURSIVE SeqsUpTo(_, _)
SeqsUpTo(pool, n) ==
  IF n = 0 THEN {<<>>}
  ELSE LET shorter == SeqsUpTo(pool, n - 1)
       IN  shorter \cup {Append(q, x) : q \in {r \in shorter : Len(r) = n - 1}, x \in pool}

Record(n) == [name |-> n, version |-> <<"1">>, latest_version |-> <<"2">>]

\* What pip list -o may report of packages a and b: each absent or under
\* one spelling of its name (pip never lists one project twice).
OutdatedResults ==
  { ra \o rb : ra \in {<<>>, <<Record(<<"a">>)>>, <<Record(<<"A">>)>>},
               rb \in {<<>>, <<Record(<<"b">>)>>, <<Record(<<"B">>)>>} }

\* What pip freeze may print of packages a and b after the upgrade.
FreezeResults ==
  { fa \o fb : fa \in {<<>>, <<<<"a","=","=","2">>>>, <<<<"A","=","=","2">>>>},
               fb \in {<<>>, <<<<"b","=","=","1">>>>, <<<<"B","=","=","1">>>>} }

\* Lines typed at the prompt: y, " Y ", n, yes, and the empty line.
ConfirmLines ==
  { <<"y">>, <<" ","Y"," ">>, <<"n">>, <<"y","e","s">>, <<>> }

\* tempfile.NamedTemporaryFile(...).name
TmpName == <<"t","m","p">>

(***************************************************************************)
(* State                                                                   *)
(***************************************************************************)
VARIABLES
  file_name,     \* file_path.name
  path_kind,     \* "file", "dir" or "missing": what file_path is
  pyproject,     \* the pyproject.toml of the directory: "absent", "nodeps"
                 \* (no [project.dependencies]), "deps" or "malformed"
  disk,          \* the manifest on disk: its lines, or its dependencies list
  disk0,         \* the manifest as it was before the run
  env,           \* the installed packages: "original" or "upgraded"
  tmp_exists,    \* whether the transient list file exists
  pc,            \* the position of main()
  outcome,       \* how the run ended, "" while it runs
  deps,          \* deps (a dict), <<>> also for None
  toml_data,     \* "None" or "doc"
  candidates,    \* candidates (a dict)
  line_read,     \* the line input() returned
  upgrade_file,  \* upgrade_file
  raised,        \* what the upgrade command raised: "" or "CommandError"
  frozen,        \* frozen (a dict)
  freeze_lines,  \* the lines pip freeze printed
  outdated_data, \* the array pip list -o printed
  calls,         \* what the run did: "query", "prompt", "upgrade", "freeze", "open"
  read_as,       \* the reader's branch: "", "lines" or "toml"
  written_as     \* the rewrite's branch: "", "lines" or "toml"

vars ==
  <<file_name, path_kind, pyproject, disk, disk0, env, tmp_exists, pc, outcome,
    deps, toml_data, candidates, line_read, upgrade_file, raised, frozen,
    freeze_lines, outdated_data, calls, read_as, written_as>>

\* main, lines 194-195: the names that pass the file-name validation.
PassesValidation(n) ==
  LET fn == Split(Lower(n), ".")
  IN  /\ Len(fn) >= 2
      /\ ~(fn[2] = <<"t","o","m","l">> /\ fn[1] # <<"p","y","p","r","o","j","e","c","t">>)

Init ==
  /\ file_name \in FileNames
  /\ path_kind \in {"file", "dir", "missing"}
  /\ path_kind # "file" => file_name = RequirementsTxt
  /\ pyproject \in
       IF path_kind = "file" /\ IsStructured(file_name)
         THEN {"nodeps", "deps", "malformed"}
         ELSE {"absent", "nodeps", "deps", "malformed"}
  /\ disk \in
       IF path_kind # "file" \/ ~PassesValidation(file_name) THEN {<<>>}
       ELSE IF IsStructured(file_name)
         THEN (IF pyproject = "deps" THEN SeqsUpTo(TomlPool, MaxLines) ELSE {<<>>})
         ELSE SeqsUpTo(LinePool, MaxLines)
  /\ disk0 = disk
  /\ env = "original"
  /\ tmp_exists = FALSE
  /\ pc = "main"
  /\ outcome = ""
  /\ deps = <<>>
  /\ toml_data = "None"
  /\ candidates = <<>>
  /\ line_read = <<>>
  /\ upgrade_file = <<>>
  /\ raised = ""
  /\ frozen = <<>>
  /\ freeze_lines = <<>>
  /\ outdated_data = <<>>
  /\ calls = {}
  /\ read_as = ""
  /\ written_as = ""

\* The run ends with outcome o.
Ends(o) ==
  /\ pc' = "done"
  /\ outcome' = o

(***************************************************************************)
(* The steps of main()                                                     *)
(***************************************************************************)
\* main, lines 182-199: the path and the file name are validated.
Validate ==
  /\ pc = "main"
  /\ IF path_kind = "missing" THEN Ends("not_found")
     ELSE IF path_kind = "dir" THEN Ends("is_dir")
     ELSE IF Len(Split(Lower(file_name), ".")) < 2 THEN Ends("IndexError")
     ELSE IF ~PassesValidation(file_name) THEN Ends("invalid_toml_name")
     ELSE pc' = "load" /\ outcome' = outcome
  /\ UNCHANGED <<file_name, path_kind, pyproject, disk, disk0, env, tmp_exists,
                 deps, toml_data, candidates, line_read, upgrade_file, raised,
                 frozen, freeze_lines, outdated_data, calls, read_as, written_as>>

\* _get_file_dependencies and main, lines 201-204.
GetFileDependencies ==
  /\ pc = "load"
  /\ IF IsStructured(file_name)
       THEN /\ read_as' = "toml"
            /\ IF pyproject = "malformed"
                 THEN Ends("TomlDecodeError") /\ UNCHANGED <<deps, toml_data>>
               ELSE IF pyproject = "nodeps"
                 THEN Ends("no_deps") /\ UNCHANGED <<deps, toml_data>>
               ELSE /\ deps' = load_toml_deps(disk)
                    /\ toml_data' = "doc"
                    /\ IF deps' = <<>> THEN Ends("no_deps")
                       ELSE pc' = "candidates" /\ outcome' = outcome
       ELSE IF pyproject = "malformed"
              THEN Ends("TomlDecodeError") /\ UNCHANGED <<deps, toml_data, read_as>>
            ELSE IF check_conflicting_sources(pyproject)
              THEN Ends("conflict") /\ UNCHANGED <<deps, toml_data, read_as>>
            ELSE /\ read_as' = "lines"
                 /\ deps' = load_requirements(disk)
                 /\ toml_data' = "None"
                 /\ IF deps' = <<>> THEN Ends("no_deps")
                    ELSE pc' = "candidates" /\ outcome' = outcome
  /\ UNCHANGED <<file_name, path_kind, pyproject, disk, disk0, env, tmp_exists,
                 candidates, line_read, upgrade_file, raised, frozen,
                 freeze_lines, outdated_data, calls, written_as>>

\* _get_upgrade_candidates and main, lines 206-208: pip list -o fails, or
\* prints an array of outdated packages.
GetUpgradeCandidates ==
  /\ pc = "candidates"
  /\ calls' = calls \cup {"query"}
  /\ \/ /\ Ends("QueryError")
        /\ UNCHANGED <<outdated_data, candidates>>
     \/ \E data \in OutdatedResults :
          /\ outdated_data' = data
          /\ candidates' = SelectCandidates(list_outdated(data), deps)
          /\ IF candidates' = <<>> THEN Ends("up_to_date")
             ELSE pc' = "confirm" /\ outcome' = outcome
  /\ UNCHANGED <<file_name, path_kind, pyproject, disk, disk0, env, tmp_exists,
                 deps, toml_data, line_read, upgrade_file, raised, frozen,
                 freeze_lines, read_as, written_as>>

\* _confirm_and_upgrade, lines 127-135: the prompt and the gate.
Confirm ==
  /\ pc = "confirm"
  /\ calls' = calls \cup {"prompt"}
  /\ \E line \in ConfirmLines :
       /\ line_read' = line
       /\ IF Proceeds(line) THEN pc' = "tmpfile" /\ outcome' = outcome
          ELSE Ends("cancelled")
  /\ UNCHANGED <<file_name, path_kind, pyproject, disk, disk0, env, tmp_exists,
                 deps, toml_data, candidates, upgrade_file, raised, frozen,
                 freeze_lines, outdated_data, read_as, written_as>>

\* _confirm_and_upgrade, lines 137-142: the transient list is written.
CreateTmp ==
  /\ pc = "tmpfile"
  /\ tmp_exists' = TRUE
  /\ upgrade_file' = TmpName
  /\ pc' = "upgrade"
  /\ UNCHANGED <<file_name, path_kind, pyproject, disk, disk0, env, outcome,
                 deps, toml_data, candidates, line_read, raised, frozen,
                 freeze_lines, outdated_data, calls, read_as, written_as>>

\* _confirm_and_upgrade, lines 144-148: pip install --upgrade -r succeeds,
\* or exits non-zero and run_cmd raises CommandError.  An install that
\* fails is taken to leave the environment as it was.
RunUpgrade ==
  /\ pc = "upgrade"
  /\ calls' = calls \cup {"upgrade"}
  /\ \/ env' = "upgraded" /\ raised' = ""
     \/ env' = env /\ raised' = "CommandError"
  /\ pc' = "finally"
  /\ UNCHANGED <<file_name, path_kind, pyproject, disk, disk0, tmp_exists,
                 outcome, deps, toml_data, candidates, line_read, upgrade_file,
                 frozen, freeze_lines, outdated_data, read_as, written_as>>

\* Fault variant of Finally: the exception of the upgrade command is
\* swallowed and the run goes on to the Repinner.
Finally_Swallow ==
  /\ pc = "finally"
  /\ tmp_exists' = IF upgrade_file # <<>> /\ tmp_exists THEN FALSE ELSE tmp_exists
  /\ pc' = "freeze"
  /\ UNCHANGED <<file_name, path_kind, pyproject, disk, disk0, env, outcome, deps,
                 toml_data, candidates, line_read, upgrade_file, raised, frozen,
                 freeze_lines, outdated_data, calls, read_as, written_as>>

\* Fault variant of Finally: the file is removed after the command, not in a
\* finally block, so an exception skips the removal.
Finally_NoCleanupOnError ==
  /\ pc = "finally"
  /\ tmp_exists' = IF raised = "" /\ upgrade_file # <<>> /\ tmp_exists
                     THEN FALSE ELSE tmp_exists
  /\ IF raised # "" THEN Ends(raised)
     ELSE pc' = "freeze" /\ outcome' = outcome
  /\ UNCHANGED <<file_name, path_kind, pyproject, disk, disk0, env, deps,
                 toml_data, candidates, line_read, upgrade_file, raised, frozen,
                 freeze_lines, outdated_data, calls, read_as, written_as>>

\* _confirm_and_upgrade, lines 149-151, and main, lines 210-216.
Finally ==
  /\ pc = "finally"
  /\ tmp_exists' = IF upgrade_file # <<>> /\ tmp_exists THEN FALSE ELSE tmp_exists
  /\ IF raised # "" THEN Ends(raised)
     ELSE pc' = "freeze" /\ outcome' = outcome
  /\ UNCHANGED <<file_name, path_kind, pyproject, disk, disk0, env, deps,
                 toml_data, candidates, line_read, upgrade_file, raised, frozen,
                 freeze_lines, outdated_data, calls, read_as, written_as>>

\* _repin_dependencies, lines 157-158: pip freeze fails, or prints its lines.
Freeze ==
  /\ pc = "freeze"
  /\ calls' = calls \cup {"freeze"}
  /\ \/ /\ Ends("CommandError")
        /\ UNCHANGED <<freeze_lines, frozen>>
     \/ \E out \in FreezeResults :
          /\ freeze_lines' = out
          /\ frozen' = Frozen(out)
          /\ pc' = "write"
          /\ outcome' = outcome
  /\ UNCHANGED <<file_name, path_kind, pyproject, disk, disk0, env, tmp_exists,
                 deps, toml_data, candidates, line_read, upgrade_file, raised,
                 outdated_data, read_as, written_as>>

\* open(file_path, "w") and the writes: they succeed, or raise OSError with
\* the file as it was (open failed) or truncated (a write failed).
WriteFile(content) ==
  /\ calls' = calls \cup {"open"}
  /\ \/ disk' = content /\ Ends("repinned")
     \/ disk' \in {disk, <<>>} /\ Ends("WriteError")

\* Fault variant of Rewrite: the structured branch opens the file for writing
\* before it builds the new list, so KeyError and TypeError leave the file
\* truncated.
Rewrite_OpenFirst ==
  /\ pc = "write"
  /\ IF WritesLines(file_name)
       THEN /\ written_as' = "lines"
            /\ WriteFile(RepinLines(deps, frozen))
       ELSE /\ written_as' = "toml"
            /\ IF RepinTomlRaises(candidates, frozen)
                 THEN Ends("KeyError") /\ disk' = <<>> /\ calls' = calls \cup {"open"}
               ELSE IF toml_data = "None"
                 THEN Ends("TypeError") /\ disk' = <<>> /\ calls' = calls \cup {"open"}
               ELSE WriteFile(RepinToml(deps, candidates, frozen))
  /\ UNCHANGED <<file_name, path_kind, pyproject, disk0, env, tmp_exists, deps,
                 toml_data, candidates, line_read, upgrade_file, raised, frozen,
                 freeze_lines, outdated_data, read_as>>

\* _repin_dependencies, lines 160-171.  In the else branch the new list is
\* built (KeyError) before toml_data is subscripted (TypeError on None).
Rewrite ==
  /\ pc = "write"
  /\ IF WritesLines(file_name)
       THEN /\ written_as' = "lines"
            /\ WriteFile(RepinLines(deps, frozen))
       ELSE /\ written_as' = "toml"
            /\ IF RepinTomlRaises(candidates, frozen)
                 THEN Ends("KeyError") /\ UNCHANGED <<disk, calls>>
               ELSE IF toml_data = "None"
                 THEN Ends("TypeError") /\ UNCHANGED <<disk, calls>>
               ELSE WriteFile(RepinToml(deps, candidates, frozen))
  /\ UNCHANGED <<file_name, path_kind, pyproject, disk0, env, tmp_exists, deps,
                 toml_data, candidates, line_read, upgrade_file, raised, frozen,
                 freeze_lines, outdated_data, read_as>>

Next ==
  \/ Validate
  \/ GetFileDependencies
  \/ GetUpgradeCandidates
  \/ Confirm
  \/ CreateTmp
  \/ RunUpgrade
  \/ Finally
  \/ Freeze
  \/ Rewrite

Spec == Init /\ [][Next]_vars

(***************************************************************************)
(* Vocabulary of the claims                                                *)
(***************************************************************************)
\* The outcomes that are errors of a run (a message with a cross, or an
\* exception); "up_to_date", "cancelled" and "repinned" are not.
ErrorOutcomes ==
  {"not_found", "is_dir", "IndexError", "invalid_toml_name", "TomlDecodeError",
   "no_deps", "conflict", "QueryError", "CommandError", "KeyError", "TypeError",
   "WriteError"}

\* The errors that arise before the Upgrader is reached.
EarlyErrors ==
  {"not_found", "is_dir", "IndexError", "invalid_toml_name", "TomlDecodeError",
   "no_deps", "conflict", "QueryError"}

\* The line is the affirmative token: "y", whatever its case, alone on the line.
Affirmative(line) == Lower(Strip(line)) = <<"y">>

\* The input is a line-based manifest: an existing file whose name passes
\* the validation and is not pyproject.toml.
LineBasedInput ==
  /\ path_kind = "file"
  /\ PassesValidation(file_name)
  /\ Lower(file_name) # PyprojectToml

\* The outdated query has answered.
Queried == "query" \in calls /\ outcome # "QueryError"

\* The names pip list -o reported, lowercased.
OutdatedNames == {Lower(outdated_data[i].name) : i \in DOMAIN outdated_data}

\* The names the manifest declares, as the reader extracts them from the
\* file as it was: what precedes == on a meaningful line, what precedes the
\* first of = < > ~ in a [project.dependencies] entry.
DeclaredNames ==
  IF read_as = "lines"
    THEN {SplitHead(Strip(disk0[i]), PinOperator) :
            i \in {j \in DOMAIN disk0 :
                     /\ Strip(disk0[j]) # <<>>
                     /\ Strip(disk0[j])[1] # "#"}}
  ELSE IF read_as = "toml" /\ pyproject = "deps"
    THEN {Strip(ReSplitHead(disk0[i], {"=", "<", ">", "~"})) : i \in DOMAIN disk0}
  ELSE {}

\* The outdated records, as (lowercased name, (version, latest)) pairs, whose
\* lowercased name is the lowercased name of a declared dependency.
MatchingRecords ==
  { <<Lower(outdated_data[i].name),
      <<outdated_data[i].version, outdated_data[i].latest_version>>>> :
      i \in {j \in DOMAIN outdated_data :
               \E d \in DeclaredNames : Lower(d) = Lower(outdated_data[j].name)} }

\* The user confirmed, the upgrade command succeeded and the run is over.
UpgradedAndOver ==
  /\ pc = "done"
  /\ "prompt" \in calls
  /\ Affirmative(line_read)
  /\ "upgrade" \in calls
  /\ raised = ""

\* pip freeze printed a line for every candidate.
FreezeCoversCandidates ==
  /\ "freeze" \in calls
  /\ \A k \in Keys(candidates) :
       \E i \in DOMAIN freeze_lines :
         Lower(SplitHead(freeze_lines[i], PinOperator)) = k

\* The freeze line of package k.
FreezeLineOf(k) ==
  freeze_lines[CHOOSE i \in DOMAIN freeze_lines :
                 Lower(SplitHead(freeze_lines[i], PinOperator)) = k]

(***************************************************************************)
(* The claims                                                              *)
(***************************************************************************)
\* C1: after a run in which the user confirms and the upgrade command
\* succeeds, every dependency entry whose name is not in the Candidate Set is
\* written back with its original declaration string, byte for byte.  Stated
\* of the runs that end with the manifest rewritten.
C1_NonCandidatesVerbatim ==
  (UpgradedAndOver /\ outcome = "repinned") =>
    \A i \in DOMAIN deps :
      ~Has(candidates, deps[i][1]) =>
        (i \in DOMAIN disk /\ disk[i] = deps[i][2])

\* C2: a line at the Confirmation Gate other than the affirmative token
\* (the empty line included) ends the run with no side effect: no upgrade
\* command, no freeze, no transient file, the environment and the manifest
\* as they were.
C2_DeclineHasNoSideEffects ==
  ("prompt" \in calls /\ ~Affirmative(line_read)) =>
    /\ pc = "done"
    /\ outcome = "cancelled"
    /\ calls = {"query", "prompt"}
    /\ disk = disk0
    /\ env = "original"
    /\ ~tmp_exists
    /\ written_as = ""

C2_Witness ==
  /\ pc = "done"
  /\ outcome = "cancelled"
  /\ line_read = <<>>
  /\ candidates # <<>>

\* C3: when the upgrade command exits non-zero the run fails with
\* CommandError without executing the Repinner: no freeze query, the
\* manifest never opened for writing and left as it was.
C3_UpgradeFailureSkipsRepinner ==
  raised = "CommandError" =>
    /\ pc \in {"finally", "done"}
    /\ pc = "done" => outcome = "CommandError"
    /\ "freeze" \notin calls
    /\ "open" \notin calls
    /\ written_as = ""
    /\ disk = disk0

C3_Witness ==
  /\ pc = "done"
  /\ raised = "CommandError"
  /\ outcome = "CommandError"
  /\ "upgrade" \in calls

\* C4: a line-based input beside a pyproject.toml that declares
\* dependencies halts with the conflict outcome: the outdated query, the
\* prompt, the upgrade command and the manifest write are never reached.
C4_ConflictHaltsBeforeQuery ==
  (LineBasedInput /\ pyproject = "deps") =>
    /\ pc \in {"main", "load", "done"}
    /\ pc = "done" => outcome = "conflict"
    /\ calls = {}
    /\ disk = disk0
    /\ env = "original"
    /\ written_as = ""

C4_Witness ==
  /\ LineBasedInput
  /\ pyproject = "deps"
  /\ disk0 # <<>>
  /\ pc = "done"
  /\ outcome = "conflict"

\* C5: when the outdated names and the declared names are disjoint, the
\* Candidate Set is empty and the run ends without the prompt and without
\* mutation: no upgrade command, the manifest not written.
C5_DisjointMeansNothingToDo ==
  (Queried /\ OutdatedNames \cap {Lower(d) : d \in DeclaredNames} = {}) =>
    /\ candidates = <<>>
    /\ pc = "done"
    /\ outcome = "up_to_date"
    /\ calls = {"query"}
    /\ disk = disk0
    /\ env = "original"
    /\ written_as = ""

C5_Witness ==
  /\ Queried
  /\ OutdatedNames # {}
  /\ DeclaredNames # {}
  /\ OutdatedNames \cap {Lower(d) : d \in DeclaredNames} = {}
  /\ outcome = "up_to_date"

\* C6, as stated: every run that ends in an error other than WriteError has
\* changed neither the installed environment nor the manifest.
C6_ErrorsPrecedeMutation ==
  (pc = "done" /\ outcome \in ErrorOutcomes \ {"WriteError"}) =>
    /\ env = "original"
    /\ disk = disk0

\* C6, amended: every run that ends in an error other than WriteError leaves
\* the manifest as it was; an error that arises before the Upgrader precedes
\* the upgrade command, and the remaining ones are the CommandError of the
\* upgrade command itself and the errors of the Repinner (freeze failure,
\* KeyError, TypeError), which arise only once the upgrade command has
\* succeeded and changed the environment.
C6_ErrorsLeaveManifest ==
  (pc = "done" /\ outcome \in ErrorOutcomes \ {"WriteError"}) =>
    /\ disk = disk0
    /\ outcome \in EarlyErrors => ("upgrade" \notin calls /\ env = "original")
    /\ outcome \notin EarlyErrors =>
         /\ outcome \in {"CommandError", "KeyError", "TypeError"}
         /\ "upgrade" \in calls
         /\ env = "upgraded" <=> "freeze" \in calls

C6_Witness ==
  /\ pc = "done"
  /\ outcome = "KeyError"
  /\ env = "upgraded"
  /\ disk = disk0
  /\ disk0 # <<>>

\* C7: after a run in which the user confirms and the upgrade command
\* succeeds, every entry that was a candidate is written to the manifest as
\* the freeze line of its package, for the line-based and the structured
\* manifest alike.  Stated of the runs in which pip freeze printed a line for
\* every candidate and no write failed.
C7_CandidatesRepinned ==
  (UpgradedAndOver /\ FreezeCoversCandidates /\ outcome # "WriteError") =>
    \A i \in DOMAIN deps :
      Has(candidates, deps[i][1]) =>
        (i \in DOMAIN disk /\ disk[i] = FreezeLineOf(deps[i][1]))

\* C8: the rewrite takes the branch of the format the reader parsed the
\* file in, and completes: the formats chosen at read time and at write time
\* agree.
C8_FormatsAgree ==
  written_as # "" =>
    /\ written_as = read_as
    /\ pc = "done" => outcome \in {"repinned", "WriteError", "KeyError"}

\* C9: the Candidate Set is exactly the outdated records whose lowercased
\* name is the lowercased name of a declared dependency.
C9_CandidatesAreCaseInsensitiveMatches ==
  Queried => {candidates[i] : i \in DOMAIN candidates} = MatchingRecords

C9_Witness ==
  /\ Queried
  /\ \E i \in DOMAIN outdated_data, d \in DeclaredNames :
       /\ d # outdated_data[i].name
       /\ Lower(d) = Lower(outdated_data[i].name)
       /\ Has(candidates, Lower(d))
  /\ \E i \in DOMAIN outdated_data : ~Has(candidates, Lower(outdated_data[i].name))

\* C10: in every terminal state of a run that reached the Upgrader, whether
\* the upgrade command succeeded or failed, the transient list file no
\* longer exists.
C10_TmpFileRemoved ==
  (pc = "done" /\ "upgrade" \in calls) => ~tmp_exists

C10_Witness ==
  /\ pc = "done"
  /\ "upgrade" \in calls
  /\ raised = "CommandError"
  /\ upgrade_file = TmpName
  /\ ~tmp_exists

====
